---- MODULE Spec2Model ----
(***************************************************************************)
(* Flip 7 calculator: the strategy engine of src/strategy.js.              *)
(*                                                                         *)
(* JavaScript numbers are modelled as exact rationals (a signed numerator  *)
(* over a positive denominator, both of arbitrary size, never reduced), so *)
(* two numbers are compared with RatCmp, never with =.  Every quantity the *)
(* engine computes is a ratio of small integers, and the properties stated *)
(* below are order and equality relations that IEEE rounding preserves     *)
(* (sums and products of non-negative terms, doubling, 1 - p).             *)
(***************************************************************************)
EXTENDS Integers, Sequences, FiniteSets, TLC

(***************************************************************************)
(* Numbers.  A magnitude is a sequence of digits in base Radix, least      *)
(* significant first, without leading zero digits (<<>> is zero).          *)
(***************************************************************************)
Radix == 10000

RECURSIVE BigOf(_)
BigOf(n) == IF n = 0 THEN <<>> ELSE <<n % Radix>> \o BigOf(n \div Radix)

RECURSIVE BigAddC(_, _, _)
BigAddC(a, b, c) ==
  IF a = <<>> /\ b = <<>>
  THEN IF c = 0 THEN <<>> ELSE <<c>>
  ELSE LET x == IF a = <<>> THEN 0 ELSE Head(a)
           y == IF b = <<>> THEN 0 ELSE Head(b)
           s == x + y + c
       IN  <<s % Radix>> \o BigAddC(IF a = <<>> THEN <<>> ELSE Tail(a),
                                    IF b = <<>> THEN <<>> ELSE Tail(b),
                                    s \div Radix)

BigAdd(a, b) == BigAddC(a, b, 0)

RECURSIVE BigMulDigit(_, _, _)
BigMulDigit(a, k, c) ==
  IF a = <<>>
  THEN IF c = 0 THEN <<>> ELSE <<c>>
  ELSE LET s == Head(a) * k + c
       IN  <<s % Radix>> \o BigMulDigit(Tail(a), k, s \div Radix)

RECURSIVE BigMul(_, _)
BigMul(a, b) ==
  IF a = <<>> \/ b = <<>>
  THEN <<>>
  ELSE LET rest  == BigMul(a, Tail(b))
           shift == IF rest = <<>> THEN <<>> ELSE <<0>> \o rest
       IN  IF Head(b) = 0 THEN shift
           ELSE BigAdd(BigMulDigit(a, Head(b), 0), shift)

RECURSIVE BigCmpFrom(_, _, _)
BigCmpFrom(a, b, i) ==
  IF i = 0 THEN 0
  ELSE IF a[i] < b[i] THEN -1
  ELSE IF a[i] > b[i] THEN 1
  ELSE BigCmpFrom(a, b, i - 1)

\* -1, 0 or 1 as a < b, a = b, a > b
BigCmp(a, b) ==
  IF Len(a) < Len(b) THEN -1
  ELSE IF Len(a) > Len(b) THEN 1
  ELSE BigCmpFrom(a, b, Len(a))

RECURSIVE BigStrip(_)
BigStrip(a) ==
  IF a = <<>> THEN <<>>
  ELSE IF a[Len(a)] = 0 THEN BigStrip(SubSeq(a, 1, Len(a) - 1))
  ELSE a

RECURSIVE BigSubB(_, _, _)
BigSubB(a, b, borrow) ==
  IF a = <<>> THEN <<>>
  ELSE LET y == IF b = <<>> THEN 0 ELSE Head(b)
           s == Head(a) - y - borrow
       IN  <<IF s < 0 THEN s + Radix ELSE s>>
             \o BigSubB(Tail(a), IF b = <<>> THEN <<>> ELSE Tail(b),
                        IF s < 0 THEN 1 ELSE 0)

\* a - b for a >= b
BigSub(a, b) == BigStrip(BigSubB(a, b, 0))

\* Signed integers: a sign and a magnitude; zero is not negative.
IntOf(i) == [neg |-> i < 0, mag |-> BigOf(IF i < 0 THEN -i ELSE i)]

IntNeg(x) == [neg |-> (~x.neg) /\ x.mag # <<>>, mag |-> x.mag]

IntAdd(x, y) ==
  IF x.neg = y.neg
  THEN [neg |-> x.neg, mag |-> BigAdd(x.mag, y.mag)]
  ELSE LET c == BigCmp(x.mag, y.mag)
       IN  IF c = 0 THEN [neg |-> FALSE, mag |-> <<>>]
           ELSE IF c > 0 THEN [neg |-> x.neg, mag |-> BigSub(x.mag, y.mag)]
           ELSE [neg |-> y.neg, mag |-> BigSub(y.mag, x.mag)]

\* a signed integer times a magnitude
IntScale(x, m) ==
  LET p == BigMul(x.mag, m)
  IN  [neg |-> x.neg /\ p # <<>>, mag |-> p]

IntCmp(x, y) ==
  IF x.neg /\ ~y.neg THEN -1
  ELSE IF ~x.neg /\ y.neg THEN 1
  ELSE IF x.neg THEN BigCmp(y.mag, x.mag)
  ELSE BigCmp(x.mag, y.mag)

\* Rationals: num / den with den > 0.
Frac(n, d) == [num |-> IntOf(n), den |-> BigOf(d)]

RatOf(n) == Frac(n, 1)

RatAdd(x, y) ==
  [num |-> IntAdd(IntScale(x.num, y.den), IntScale(y.num, x.den)),
   den |-> BigMul(x.den, y.den)]

RatNeg(x) == [num |-> IntNeg(x.num), den |-> x.den]

RatSub(x, y) == RatAdd(x, RatNeg(y))

RatMul(x, y) ==
  LET p == BigMul(x.num.mag, y.num.mag)
  IN  [num |-> [neg |-> (x.num.neg # y.num.neg) /\ p # <<>>, mag |-> p],
       den |-> BigMul(x.den, y.den)]

\* x / y for y # 0
RatDiv(x, y) ==
  LET p == BigMul(x.num.mag, y.den)
  IN  [num |-> [neg |-> (x.num.neg # y.num.neg) /\ p # <<>>, mag |-> p],
       den |-> BigMul(x.den, y.num.mag)]

RatCmp(x, y) == IntCmp(IntScale(x.num, y.den), IntScale(y.num, x.den))

RatEq(x, y) == RatCmp(x, y) = 0
RatLt(x, y) == RatCmp(x, y) < 0
RatLe(x, y) == RatCmp(x, y) <= 0
RatGt(x, y) == RatCmp(x, y) > 0

RatAbs(x) == [num |-> [neg |-> FALSE, mag |-> x.num.mag], den |-> x.den]

RatMin(x, y) == IF RatLe(x, y) THEN x ELSE y

RECURSIVE IntPow(_, _)
IntPow(b, n) == IF n = 0 THEN 1 ELSE b * IntPow(b, n - 1)

\* Math.pow(tenths / 10, n)
RatPowTenths(tenths, n) == Frac(IntPow(tenths, n), IntPow(10, n))

(***************************************************************************)
(* The deck (src/strategy.js).                                             *)
(***************************************************************************)
Values == 0..12

\* index = card number + 1, value = count in deck
DECK_COMPOSITION == <<1, 1, 2, 3, 4, 5, 6, 7, 8, 9, 10, 11, 12>>

Deck(v) == DECK_COMPOSITION[v + 1]

RECURSIVE SumSeq(_)
SumSeq(s) == IF s = <<>> THEN 0 ELSE Head(s) + SumSeq(Tail(s))

TOTAL_NUMBER_CARDS == SumSeq(DECK_COMPOSITION)

FLIP_7_BONUS == 15

Max(a, b) == IF a >= b THEN a ELSE b

\* revealedCounts[i] || 0 : a value the mapping does not hold counts as 0
Revealed(revealedCounts, i) ==
  IF i \in DOMAIN revealedCounts THEN revealedCounts[i] ELSE 0

\* unknownPool[card] || 0
PoolAt(unknownPool, card) ==
  IF card \in DOMAIN unknownPool.count THEN unknownPool.count[card] ELSE 0

RECURSIVE SumCounts(_, _)
SumCounts(count, i) ==
  IF i < 0 THEN 0 ELSE count[i] + SumCounts(count, i - 1)

\* Variant of getUnknownPool without the clamp Math.max(0, remaining).
getUnknownPool_NoClamp(revealedCounts) ==
  LET count == [i \in Values |-> Deck(i) - Revealed(revealedCounts, i)]
  IN  [count |-> count, total |-> SumCounts(count, 12)]

\* Variant of getUnknownPool whose total is not reduced by what is revealed.
getUnknownPool_FullTotal(revealedCounts) ==
  LET count == [i \in Values |->
                  Max(0, Deck(i) - Revealed(revealedCounts, i))]
  IN  [count |-> count, total |-> TOTAL_NUMBER_CARDS]

\* The pool object: count[i] is pool[i], total is pool.total.
getUnknownPool(revealedCounts) ==
  LET count == [i \in Values |->
                  Max(0, Deck(i) - Revealed(revealedCounts, i))]
  IN  [count |-> count, total |-> SumCounts(count, 12)]

RECURSIVE DangerCount(_, _)
DangerCount(myCards, unknownPool) ==
  IF myCards = <<>> THEN 0
  ELSE PoolAt(unknownPool, Head(myCards))
         + DangerCount(Tail(myCards), unknownPool)

\* Variant of calculateBustProbability dividing by the whole deck instead
\* of the cards still unseen.
calculateBustProbability_WholeDeck(myCards, unknownPool) ==
  IF unknownPool.total = 0 THEN RatOf(0)
  ELSE Frac(DangerCount(myCards, unknownPool), TOTAL_NUMBER_CARDS)

calculateBustProbability(myCards, unknownPool) ==
  IF unknownPool.total = 0 THEN RatOf(0)
  ELSE Frac(DangerCount(myCards, unknownPool), unknownPool.total)

\* new Set(myCards)
CardSet(myCards) == {myCards[k] : k \in DOMAIN myCards}

\* the values the loops of calculateExpectedDrawValue and
\* calculateFlip7Potential count as safe
SafeValues(myCards, unknownPool) ==
  {i \in Values : i \notin CardSet(myCards) /\ PoolAt(unknownPool, i) > 0}

RECURSIVE SumOver(_, _, _)
SumOver(S, unknownPool, weighted) ==
  IF S = {} THEN 0
  ELSE LET i == CHOOSE x \in S : TRUE
       IN  (IF weighted THEN i ELSE 1) * PoolAt(unknownPool, i)
             + SumOver(S \ {i}, unknownPool, weighted)

\* Variant of calculateExpectedDrawValue that forgets the X2 modifier.
calculateExpectedDrawValue_IgnoresX2(myCards, unknownPool, hasX2) ==
  IF unknownPool.total = 0 THEN RatOf(0)
  ELSE LET safe          == SafeValues(myCards, unknownPool)
           weightedSum   == SumOver(safe, unknownPool, TRUE)
           safeCardCount == SumOver(safe, unknownPool, FALSE)
       IN  IF safeCardCount = 0 THEN RatOf(0)
           ELSE Frac(weightedSum, safeCardCount)

calculateExpectedDrawValue(myCards, unknownPool, hasX2) ==
  IF unknownPool.total = 0 THEN RatOf(0)
  ELSE LET safe          == SafeValues(myCards, unknownPool)
           weightedSum   == SumOver(safe, unknownPool, TRUE)
           safeCardCount == SumOver(safe, unknownPool, FALSE)
       IN  IF safeCardCount = 0 THEN RatOf(0)
           ELSE LET expectedValue == Frac(weightedSum, safeCardCount)
                IN  IF hasX2 THEN RatMul(expectedValue, RatOf(2))
                    ELSE expectedValue

calculateCurrentPoints(myCards, hasX2) ==
  LET sum == SumSeq(myCards)
  IN  IF hasX2 THEN RatOf(sum * 2) ELSE RatOf(sum)

\* Variant of calculateFlip7Potential without the test
\* distinctSafeCards < cardsNeeded.
calculateFlip7Potential_NoDistinctTest(myCards, unknownPool) ==
  LET cardsNeeded == 7 - Len(myCards)
  IN  IF cardsNeeded <= 0 THEN RatOf(1)
      ELSE IF cardsNeeded > 3 THEN RatOf(0)
      ELSE RatMul(Frac(SumOver(SafeValues(myCards, unknownPool),
                               unknownPool, FALSE),
                       unknownPool.total),
                  RatPowTenths(7, cardsNeeded))

\* A division by pool.total = 0 yields a value with a zero denominator
\* (NaN or Infinity in the source).
calculateFlip7Potential(myCards, unknownPool) ==
  LET cardsNeeded == 7 - Len(myCards)
  IN  IF cardsNeeded <= 0 THEN RatOf(1)
      ELSE IF cardsNeeded > 3 THEN RatOf(0)
      ELSE LET safe              == SafeValues(myCards, unknownPool)
               distinctSafeCards == Cardinality(safe)
               totalSafeCards    == SumOver(safe, unknownPool, FALSE)
           IN  IF distinctSafeCards < cardsNeeded THEN RatOf(0)
               ELSE LET baseProbability ==
                          Frac(totalSafeCards, unknownPool.total)
                        scaleFactor == RatPowTenths(7, cardsNeeded)
                    IN  RatMul(baseProbability, scaleFactor)

\* Variant of calculateEffectiveBustWithSecondChance without the factor 0.8.
calculateEffectiveBustWithSecondChance_Squared(pBust, myCards, unknownPool) ==
  RatMul(pBust, pBust)

\* Variant of calculateEffectiveBustWithSecondChance that takes a bust on
\* either of two draws: 1 - (1 - pBust)^2.
calculateEffectiveBustWithSecondChance_EitherDraw(pBust, myCards, unknownPool) ==
  RatSub(RatOf(1), RatMul(RatSub(RatOf(1), pBust), RatSub(RatOf(1), pBust)))

\* const pBustAgain = pBust * 0.8; return pBust * pBustAgain
calculateEffectiveBustWithSecondChance(pBust, myCards, unknownPool) ==
  RatMul(RatMul(pBust, pBust), Frac(8, 10))

\* Variant of EmptyHandResult that forgets the X2 modifier.
EmptyHandResult_IgnoresX2(hasX2) ==
  [recommendation |-> "HIT",
   bustProbability |-> RatOf(0),
   effectiveBustProbability |-> RatOf(0),
   evHit |-> Frac(TOTAL_NUMBER_CARDS, 13),
   evStay |-> RatOf(0),
   confidence |-> RatOf(1),
   flip7Potential |-> RatOf(0),
   dangerCards |-> <<>>]

\* calculateStrategy, empty hand (the first edge case)
EmptyHandResult(hasX2) ==
  [recommendation |-> "HIT",
   bustProbability |-> RatOf(0),
   effectiveBustProbability |-> RatOf(0),
   evHit |-> RatMul(Frac(TOTAL_NUMBER_CARDS, 13),
                    RatOf(IF hasX2 THEN 2 ELSE 1)),
   evStay |-> RatOf(0),
   confidence |-> RatOf(1),
   flip7Potential |-> RatOf(0),
   dangerCards |-> <<>>]

\* Variant of Flip7Result that adds the bonus to evStay only.
Flip7Result_BonusOnStayOnly(myCards, hasX2) ==
  [recommendation |-> "STAY",
   bustProbability |-> RatOf(0),
   effectiveBustProbability |-> RatOf(0),
   evHit |-> calculateCurrentPoints(myCards, hasX2),
   evStay |-> RatAdd(calculateCurrentPoints(myCards, hasX2),
                     RatOf(FLIP_7_BONUS)),
   confidence |-> RatOf(1),
   flip7Potential |-> RatOf(1),
   dangerCards |-> <<>>]

\* calculateStrategy, seven cards or more (the second edge case)
Flip7Result(myCards, hasX2) ==
  LET currentPoints ==
        RatAdd(calculateCurrentPoints(myCards, hasX2), RatOf(FLIP_7_BONUS))
  IN  [recommendation |-> "STAY",
       bustProbability |-> RatOf(0),
       effectiveBustProbability |-> RatOf(0),
       evHit |-> currentPoints,
       evStay |-> currentPoints,
       confidence |-> RatOf(1),
       flip7Potential |-> RatOf(1),
       dangerCards |-> <<>>]

\* Variant of EvHit that leaves the Flip 7 bonus out.
EvHit_NoBonus(pNotBust, currentPoints, expectedDrawValue, flip7ExpectedBonus) ==
  RatMul(pNotBust, RatAdd(currentPoints, expectedDrawValue))

\* Variant of EvHit that counts the draw and the bonus, not the points held.
EvHit_DrawOnly(pNotBust, currentPoints, expectedDrawValue, flip7ExpectedBonus) ==
  RatMul(pNotBust, RatAdd(expectedDrawValue, flip7ExpectedBonus))

\* const evHit = pNotBust * (currentPoints + expectedDrawValue
\*                           + flip7ExpectedBonus)
EvHit(pNotBust, currentPoints, expectedDrawValue, flip7ExpectedBonus) ==
  RatMul(pNotBust,
         RatAdd(RatAdd(currentPoints, expectedDrawValue), flip7ExpectedBonus))

\* Variant of Recommendation comparing with >= and never a toss-up.
Recommendation_NoTossUp(evHit, evStay) ==
  IF RatLt(evHit, evStay) THEN "STAY" ELSE "HIT"

\* evHit > evStay ? 'HIT' : evHit < evStay ? 'STAY' : 'TOSS-UP'
Recommendation(evHit, evStay) ==
  IF RatGt(evHit, evStay) THEN "HIT"
  ELSE IF RatLt(evHit, evStay) THEN "STAY"
  ELSE "TOSS-UP"

Confidence(evHit, evStay) ==
  IF RatGt(evStay, RatOf(0))
  THEN RatMin(RatOf(1), RatDiv(RatAbs(RatSub(evHit, evStay)), evStay))
  ELSE IF RatGt(evHit, RatOf(0)) THEN RatOf(1) ELSE RatOf(0)

\* Variant of DangerCards that reports every card held.
DangerCards_AllHeld(myCards, unknownPool) == myCards

\* myCards.filter(card => (unknownPool[card] || 0) > 0)
DangerCards(myCards, unknownPool) ==
  LET IsDanger(card) == PoolAt(unknownPool, card) > 0
  IN  SelectSeq(myCards, IsDanger)

calculateStrategy(myCards, revealedCounts, hasSecondChance, hasX2) ==
  IF Len(myCards) = 0 THEN EmptyHandResult(hasX2)
  ELSE IF Len(myCards) >= 7 THEN Flip7Result(myCards, hasX2)
  ELSE LET unknownPool   == getUnknownPool(revealedCounts)
           currentPoints == calculateCurrentPoints(myCards, hasX2)
           pBust         == calculateBustProbability(myCards, unknownPool)
           effectivePBust ==
             IF hasSecondChance
             THEN calculateEffectiveBustWithSecondChance(pBust, myCards,
                                                         unknownPool)
             ELSE pBust
           expectedDrawValue ==
             calculateExpectedDrawValue(myCards, unknownPool, hasX2)
           flip7Potential == calculateFlip7Potential(myCards, unknownPool)
           flip7ExpectedBonus == RatMul(flip7Potential, RatOf(FLIP_7_BONUS))
           pNotBust == RatSub(RatOf(1), effectivePBust)
           evHit == EvHit(pNotBust, currentPoints, expectedDrawValue,
                          flip7ExpectedBonus)
           evStay == currentPoints
       IN  [recommendation |-> Recommendation(evHit, evStay),
            bustProbability |-> pBust,
            effectiveBustProbability |-> effectivePBust,
            evHit |-> evHit,
            evStay |-> evStay,
            confidence |-> Confidence(evHit, evStay),
            flip7Potential |-> flip7Potential,
            dangerCards |-> DangerCards(myCards, unknownPool),
            unknownPool |-> unknownPool]

(***************************************************************************)
(* The engine's callers.  A snapshot (myCards, revealedCounts and the two  *)
(* modifiers) is drawn from a bounded family, and one exported or internal *)
(* function of the engine is applied to it; ret holds what it returned.    *)
(* removeMode is the fifth field of the page's state, and rendered is what *)
(* updateUI last wrote to the page; the calls below leave both alone.      *)
(***************************************************************************)
VARIABLES myCards, revealedCounts, hasSecondChance, hasX2, called, ret,
          removeMode, rendered

vars == <<myCards, revealedCounts, hasSecondChance, hasX2, called, ret,
          removeMode, rendered>>

\* longest run of consecutive face values in a drawn hand
MaxHandLen == 8
\* extra copies of its first card a drawn hand may hold
MaxDup == 1
\* most not-held face values left unseen in a partly revealed deck
MaxUnseen == 3
\* by how much an inconsistent revealed count exceeds the deck
MaxExcess == 1

\* lo, lo+1, ..., lo+k-1 followed by d more copies of lo
HandOf(lo, k, d) == [i \in 1..(k + d) |-> IF i <= k THEN lo + i - 1 ELSE lo]

Hands ==
  {<<>>} \cup
  {HandOf(lo, k, d) : <<lo, k, d>> \in
     {t \in Values \X (1..MaxHandLen) \X (0..MaxDup) : t[1] + t[2] - 1 <= 12}}

\* the number of copies of v in hand
Copies(hand, v) == Cardinality({k \in DOMAIN hand : hand[k] = v})

HeldModes == {"own", "absent", "all", "over"}

OtherModes ==
  {<<"absent", 0>>, <<"zero", 0>>, <<"over", 0>>}
    \cup {<<"unseen", j>> : j \in 0..MaxUnseen}

\* What is revealed of the held values (held) and of the others (other):
\*   "own"    the copies in the hand, nothing else
\*   "absent" no entry for the value
\*   "zero"   an entry of 0
\*   "all"    every copy of the deck
\*   "over"   more copies than the deck holds
\*   "unseen", j  every copy, but for no entry at the j highest not-held
\*                values
RevealedFor(hand, held, other) ==
  LET mine      == CardSet(hand)
      above(v)  == Cardinality({w \in Values \ mine : w > v})
      absent(v) == IF v \in mine THEN held = "absent"
                   ELSE \/ other[1] = "absent"
                        \/ other[1] = "unseen" /\ above(v) < other[2]
      count(v)  == IF v \in mine
                   THEN CASE held = "own"  -> Copies(hand, v)
                          [] held = "all"  -> Deck(v)
                          [] held = "over" -> Deck(v) + MaxExcess
                   ELSE CASE other[1] = "zero" -> 0
                          [] other[1] = "over" -> Deck(v) + MaxExcess
                          [] OTHER          -> Deck(v)
  IN  [v \in {w \in Values : ~absent(w)} |-> count(v)]

NoResult == [pending |-> TRUE]

Init ==
  /\ \E hand \in Hands, held \in HeldModes, other \in OtherModes :
       /\ myCards = hand
       /\ revealedCounts = RevealedFor(hand, held, other)
  /\ hasSecondChance \in BOOLEAN
  /\ hasX2 \in BOOLEAN
  /\ called = "none"
  /\ ret = NoResult
  /\ removeMode = FALSE
  /\ rendered = NoResult

Inputs == <<myCards, revealedCounts, hasSecondChance, hasX2>>

CallGetUnknownPool ==
  /\ called = "none"
  /\ called' = "getUnknownPool"
  /\ ret' = getUnknownPool(revealedCounts)
  /\ UNCHANGED <<Inputs, removeMode, rendered>>

CallCalculateBustProbability ==
  /\ called = "none"
  /\ called' = "calculateBustProbability"
  /\ ret' = calculateBustProbability(myCards, getUnknownPool(revealedCounts))
  /\ UNCHANGED <<Inputs, removeMode, rendered>>

CallCalculateExpectedDrawValue ==
  /\ called = "none"
  /\ called' = "calculateExpectedDrawValue"
  /\ ret' = calculateExpectedDrawValue(myCards,
                                       getUnknownPool(revealedCounts), hasX2)
  /\ UNCHANGED <<Inputs, removeMode, rendered>>

CallCalculateCurrentPoints ==
  /\ called = "none"
  /\ called' = "calculateCurrentPoints"
  /\ ret' = calculateCurrentPoints(myCards, hasX2)
  /\ UNCHANGED <<Inputs, removeMode, rendered>>

CallCalculateFlip7Potential ==
  /\ called = "none"
  /\ called' = "calculateFlip7Potential"
  /\ ret' = calculateFlip7Potential(myCards, getUnknownPool(revealedCounts))
  /\ UNCHANGED <<Inputs, removeMode, rendered>>

CallCalculateStrategy ==
  /\ called = "none"
  /\ called' = "calculateStrategy"
  /\ ret' = calculateStrategy(myCards, revealedCounts, hasSecondChance, hasX2)
  /\ UNCHANGED <<Inputs, removeMode, rendered>>

Next ==
  \/ CallGetUnknownPool
  \/ CallCalculateBustProbability
  \/ CallCalculateExpectedDrawValue
  \/ CallCalculateCurrentPoints
  \/ CallCalculateFlip7Potential
  \/ CallCalculateStrategy

Spec == Init /\ [][Next]_vars

(***************************************************************************)
(* The page (src/app.js).  The state is the five fields of the state       *)
(* object; every event handler is one action, its closing updateUI         *)
(* included.  The buttons pressed are those of Buttons, and the user does  *)
(* not add to a face value of which MaxRevealed copies are revealed.       *)
(***************************************************************************)
\* the face values whose buttons are pressed
Buttons == {0, 11, 12}

\* the revealed copies of one face value beyond which nothing is added
MaxRevealed == 2

\* Number.prototype.toFixed(1), as the number of tenths: the nearest tenth of
\* the magnitude, a tie going up, with the sign put back.  (The exact value
\* is rounded; a double that is not exact can fall on the other side of a
\* tie.)
RECURSIVE Above(_, _)
Above(x, hi) == IF RatLt(x, RatOf(hi)) THEN hi ELSE Above(x, 2 * hi)

RECURSIVE FloorBetween(_, _, _)
FloorBetween(x, lo, hi) ==
  IF hi - lo <= 1 THEN lo
  ELSE LET mid == (lo + hi) \div 2
       IN  IF RatLe(RatOf(mid), x) THEN FloorBetween(x, mid, hi)
           ELSE FloorBetween(x, lo, mid)

toFixed1(x) ==
  LET scaled == RatAdd(RatMul(RatAbs(x), RatOf(10)), Frac(1, 2))
      tenths == FloorBetween(scaled, 0, Above(scaled, 1))
  IN  IF RatLt(x, RatOf(0)) THEN 0 - tenths ELSE tenths

\* Object.values(state.revealedCounts).reduce((a, b) => a + b, 0)
TotalRevealed(counts) ==
  SumCounts([v \in Values |-> Revealed(counts, v)], 12)

\* state.revealedCounts = {}
EmptyCounts == [v \in {} |-> 0]

\* state.revealedCounts[num] = n
SetCount(counts, num, n) ==
  [v \in DOMAIN counts \cup {num} |-> IF v = num THEN n ELSE counts[v]]

\* state.revealedCounts[num]--; if (... <= 0) delete state.revealedCounts[num]
DecrementCount(counts, num) ==
  IF counts[num] - 1 <= 0
  THEN [v \in DOMAIN counts \ {num} |-> counts[v]]
  ELSE [counts EXCEPT ![num] = @ - 1]

\* state.myCards.indexOf(num), counted from 1; 0 for -1
IndexOf(cards, num) ==
  IF \E k \in DOMAIN cards : cards[k] = num
  THEN CHOOSE k \in DOMAIN cards :
         cards[k] = num /\ \A j \in 1..(k - 1) : cards[j] # num
  ELSE 0

\* state.myCards.splice(index, 1)
Splice(cards, index) ==
  [k \in 1..(Len(cards) - 1) |-> IF k < index THEN cards[k] ELSE cards[k + 1]]

\* What updateUI writes to the page from the result and the state: the text
\* of the badge, the three statistics (<<>> stands for '--'), the two
\* counters, and the classes and count badges of the two grids.
Page(result, cards, counts) ==
  LET held == Len(cards) > 0
  IN  [recommendation |-> IF held THEN result.recommendation
                           ELSE "SELECT CARDS",
       bustProb |-> IF held
                    THEN <<toFixed1(RatMul(result.bustProbability,
                                           RatOf(100)))>>
                    ELSE <<>>,
       evHit    |-> IF held THEN <<toFixed1(result.evHit)>> ELSE <<>>,
       evStay   |-> IF held THEN <<toFixed1(result.evStay)>> ELSE <<>>,
       myCardCount   |-> Len(cards),
       revealedCount |-> TotalRevealed(counts),
       myCard   |-> CardSet(cards),
       danger   |-> CardSet(cards) \cap CardSet(result.dangerCards),
       selected |-> {v \in Values : Revealed(counts, v) > 0},
       maxed    |-> {v \in Values : Revealed(counts, v) >= Deck(v)},
       badge    |-> [v \in {w \in Values : Revealed(counts, w) > 0} |->
                       Revealed(counts, v)]]

\* updateUI, run on the state the handler has just written
updateUI ==
  /\ called' = "calculateStrategy"
  /\ ret' = calculateStrategy(myCards', revealedCounts',
                              hasSecondChance', hasX2')
  /\ rendered' = Page(ret', myCards', revealedCounts')

\* init(): the state object as declared, and the first updateUI
InitUI ==
  /\ myCards = <<>>
  /\ revealedCounts = EmptyCounts
  /\ hasSecondChance = FALSE
  /\ hasX2 = FALSE
  /\ removeMode = FALSE
  /\ called = "calculateStrategy"
  /\ ret = calculateStrategy(<<>>, EmptyCounts, FALSE, FALSE)
  /\ rendered = Page(ret, <<>>, EmptyCounts)

\* Variant of toggleMyCard that adds a card whether or not it is held.
toggleMyCard_AlwaysAdd(num) ==
  IF Revealed(revealedCounts, num) >= Deck(num) THEN UNCHANGED vars
  ELSE /\ myCards' = Append(myCards, num)
       /\ revealedCounts' =
            SetCount(revealedCounts, num, Revealed(revealedCounts, num) + 1)
       /\ UNCHANGED <<hasSecondChance, hasX2, removeMode>>
       /\ updateUI

toggleMyCard(num) ==
  LET index == IndexOf(myCards, num)
      maxCount == Deck(num)
      currentRevealed == Revealed(revealedCounts, num)
  IN  IF index = 0
      THEN IF currentRevealed >= maxCount THEN UNCHANGED vars
           ELSE /\ myCards' = Append(myCards, num)
                /\ revealedCounts' =
                     SetCount(revealedCounts, num, currentRevealed + 1)
                /\ UNCHANGED <<hasSecondChance, hasX2, removeMode>>
                /\ updateUI
      ELSE /\ myCards' = Splice(myCards, index)
           /\ revealedCounts' =
                IF Revealed(revealedCounts, num) # 0
                THEN DecrementCount(revealedCounts, num)
                ELSE revealedCounts
           /\ UNCHANGED <<hasSecondChance, hasX2, removeMode>>
           /\ updateUI

incrementRevealed(num) ==
  LET maxCount == Deck(num)
      current  == Revealed(revealedCounts, num)
  IN  IF current < maxCount
      THEN /\ revealedCounts' = SetCount(revealedCounts, num, current + 1)
           /\ UNCHANGED <<myCards, hasSecondChance, hasX2, removeMode>>
           /\ updateUI
      ELSE UNCHANGED vars

\* Variant of decrementRevealed that does not look at the cards held.
decrementRevealed_BelowHand(num) ==
  IF Revealed(revealedCounts, num) > 0
  THEN /\ revealedCounts' = DecrementCount(revealedCounts, num)
       /\ UNCHANGED <<myCards, hasSecondChance, hasX2, removeMode>>
       /\ updateUI
  ELSE UNCHANGED vars

decrementRevealed(num) ==
  LET myCardCount == Copies(myCards, num)
  IN  IF /\ Revealed(revealedCounts, num) > 0
         /\ Revealed(revealedCounts, num) > myCardCount
      THEN /\ revealedCounts' = DecrementCount(revealedCounts, num)
           /\ UNCHANGED <<myCards, hasSecondChance, hasX2, removeMode>>
           /\ updateUI
      ELSE UNCHANGED vars

resetState ==
  /\ myCards' = <<>>
  /\ revealedCounts' = EmptyCounts
  /\ hasSecondChance' = FALSE
  /\ hasX2' = FALSE
  /\ removeMode' = FALSE
  /\ updateUI

\* click on the grid of my cards
MyCardsGridClick(num) == toggleMyCard(num)

\* click on the grid of revealed cards; the class 'maxed' is the one the last
\* updateUI left on the button
RevealedGridClick(num) ==
  IF removeMode THEN decrementRevealed(num)
  ELSE IF num \notin rendered.maxed THEN incrementRevealed(num)
  ELSE UNCHANGED vars

\* right click on the grid of revealed cards
RevealedGridContextMenu(num) == decrementRevealed(num)

\* the remove mode button: no updateUI
RemoveModeClick ==
  /\ removeMode' = ~removeMode
  /\ UNCHANGED <<Inputs, called, ret, rendered>>

SecondChanceClick ==
  /\ hasSecondChance' = ~hasSecondChance
  /\ UNCHANGED <<myCards, revealedCounts, hasX2, removeMode>>
  /\ updateUI

\* Variant of X2Click that leaves the page as it was.
X2Click_NoUpdate ==
  /\ hasX2' = ~hasX2
  /\ UNCHANGED <<myCards, revealedCounts, hasSecondChance, removeMode,
                 called, ret, rendered>>

X2Click ==
  /\ hasX2' = ~hasX2
  /\ UNCHANGED <<myCards, revealedCounts, hasSecondChance, removeMode>>
  /\ updateUI

ResetClick == resetState

\* the user adds to num only while fewer than MaxRevealed copies are revealed
MayAdd(num) == Revealed(revealedCounts, num) < MaxRevealed

NextUI ==
  \/ \E num \in Buttons :
       /\ IndexOf(myCards, num) = 0 => MayAdd(num)
       /\ MyCardsGridClick(num)
  \/ \E num \in Buttons :
       /\ ~removeMode => MayAdd(num)
       /\ RevealedGridClick(num)
  \/ \E num \in Buttons : RevealedGridContextMenu(num)
  \/ RemoveModeClick
  \/ SecondChanceClick
  \/ X2Click
  \/ ResetClick

SpecUI == InitUI /\ [][NextUI]_vars

(***************************************************************************)
(* Properties of the engine.                                               *)
(***************************************************************************)
Zero == RatOf(0)
One  == RatOf(1)

\* x2 ? 2 : 1
Factor(x2) == IF x2 THEN 2 ELSE 1

\* a state in which calculateStrategy has returned for a hand of 1 to 6 cards
MiddleRegime == called = "calculateStrategy" /\ Len(myCards) \in 1..6

\* C1: for a hand of 1 to 6 cards the recommendation calculateStrategy
\* returns is HIT exactly when the returned evHit > evStay, STAY exactly when
\* evHit < evStay, and TOSS-UP exactly when the two are equal.
C1_RecommendationFollowsEV ==
  MiddleRegime =>
    /\ ret.recommendation \in {"HIT", "STAY", "TOSS-UP"}
    /\ (ret.recommendation = "HIT")     <=> RatGt(ret.evHit, ret.evStay)
    /\ (ret.recommendation = "STAY")    <=> RatLt(ret.evHit, ret.evStay)
    /\ (ret.recommendation = "TOSS-UP") <=> RatEq(ret.evHit, ret.evStay)

\* a toss-up on positive points: the whole deck has been revealed
C1_Witness ==
  /\ MiddleRegime
  /\ ret.recommendation = "TOSS-UP"
  /\ RatGt(ret.evStay, Zero)
  /\ RatEq(ret.evHit, ret.evStay)

\* C2: for a hand of 1 to 6 cards calculateStrategy returns
\* evStay = currentPoints = (sum of the hand's face values) * (x2 ? 2 : 1) and
\* evHit = (1 - effectiveBustProbability)
\*           * (currentPoints + expectedDrawValue + flip7Potential * 15),
\* all computed from the unknown pool derived from revealedCounts.
C2_ExpectedValues ==
  MiddleRegime =>
    LET pool          == getUnknownPool(revealedCounts)
        currentPoints == RatOf(SumSeq(myCards) * Factor(hasX2))
        expectedDraw  == calculateExpectedDrawValue(myCards, pool, hasX2)
    IN  /\ ret.unknownPool = pool
        /\ RatEq(ret.bustProbability, calculateBustProbability(myCards, pool))
        /\ RatEq(ret.flip7Potential, calculateFlip7Potential(myCards, pool))
        /\ RatEq(ret.evStay, currentPoints)
        /\ RatEq(ret.evHit,
                 RatMul(RatSub(One, ret.effectiveBustProbability),
                        RatAdd(RatAdd(currentPoints, expectedDraw),
                               RatMul(ret.flip7Potential, RatOf(15)))))

\* every term of evHit counts: both modifiers, a bust risk, a draw value and
\* a Flip 7 potential
C2_Witness ==
  /\ MiddleRegime
  /\ hasX2 /\ hasSecondChance
  /\ RatGt(ret.bustProbability, Zero)
  /\ RatGt(ret.flip7Potential, Zero)
  /\ RatGt(ret.evStay, Zero)
  /\ RatLt(ret.evStay, ret.evHit)

\* C3: for an empty hand calculateStrategy returns HIT, evStay = 0 and
\* evHit = (79 / 13) * (x2 ? 2 : 1), whatever revealedCounts and
\* hasSecondChance are, also when every card of the deck is revealed.
C3_EmptyHand ==
  (called = "calculateStrategy" /\ myCards = <<>>) =>
    /\ ret.recommendation = "HIT"
    /\ RatEq(ret.evStay, Zero)
    /\ RatEq(ret.evHit, RatMul(Frac(79, 13), RatOf(Factor(hasX2))))

\* the empty hand with every card revealed and both modifiers set
C3_Witness ==
  /\ called = "calculateStrategy"
  /\ myCards = <<>>
  /\ getUnknownPool(revealedCounts).total = 0
  /\ hasX2 /\ hasSecondChance
  /\ ret.recommendation = "HIT"
  /\ RatEq(ret.evHit, Frac(158, 13))

\* C4: for a hand of 7 or more cards calculateStrategy returns STAY with
\* evHit = evStay = currentPoints + 15, currentPoints being
\* (sum of hand values) * (x2 ? 2 : 1); hand {1,...,7} without modifiers
\* gives evHit = evStay = 43.
C4_SevenOrMore ==
  (called = "calculateStrategy" /\ Len(myCards) >= 7) =>
    LET currentPoints == SumSeq(myCards) * Factor(hasX2)
    IN  /\ ret.recommendation = "STAY"
        /\ RatEq(ret.evHit, RatOf(currentPoints + 15))
        /\ RatEq(ret.evStay, RatOf(currentPoints + 15))
        /\ (myCards = <<1, 2, 3, 4, 5, 6, 7>> /\ ~hasX2)
             => RatEq(ret.evHit, RatOf(43)) /\ RatEq(ret.evStay, RatOf(43))

\* the hand {1,...,7} without modifiers
C4_Witness ==
  /\ called = "calculateStrategy"
  /\ myCards = <<1, 2, 3, 4, 5, 6, 7>>
  /\ ~hasX2 /\ ~hasSecondChance
  /\ ret.recommendation = "STAY"
  /\ RatEq(ret.evHit, RatOf(43))

\* C5: for every revealedCounts, also one that exceeds the deck or lacks a
\* value, getUnknownPool returns pool[v] = max(0, DeckComposition[v] -
\* revealedCounts[v]) for each v in 0..12, none negative, and pool.total is
\* the sum of the thirteen pool[v].
C5_UnknownPool ==
  called = "getUnknownPool" =>
    /\ DOMAIN ret.count = Values
    /\ \A v \in Values :
         LET revealed  == IF v \in DOMAIN revealedCounts
                          THEN revealedCounts[v] ELSE 0
             remaining == DECK_COMPOSITION[v + 1] - revealed
         IN  /\ ret.count[v] = IF remaining > 0 THEN remaining ELSE 0
             /\ ret.count[v] >= 0
    /\ ret.total = ret.count[0] + ret.count[1] + ret.count[2] + ret.count[3]
                     + ret.count[4] + ret.count[5] + ret.count[6]
                     + ret.count[7] + ret.count[8] + ret.count[9]
                     + ret.count[10] + ret.count[11] + ret.count[12]

\* a mapping that exceeds the deck at one value and lacks another
C5_Witness ==
  /\ called = "getUnknownPool"
  /\ \E v \in DOMAIN revealedCounts :
       revealedCounts[v] > Deck(v) /\ ret.count[v] = 0
  /\ \E v \in Values : v \notin DOMAIN revealedCounts /\ ret.count[v] = Deck(v)
  /\ ret.total > 0

\* no face value is held twice
DuplicateFree(hand) == \A v \in Values : Copies(hand, v) <= 1

\* the invariants of the data model: 0 <= revealedCounts[v] <= deck[v], and
\* the copies of v held <= revealedCounts[v]
WellFormed(hand, revealed) ==
  \A v \in Values :
    LET r == IF v \in DOMAIN revealed THEN revealed[v] ELSE 0
    IN  0 <= r /\ r <= DECK_COMPOSITION[v + 1] /\ Copies(hand, v) <= r

\* the unseen copies of the cards of the hand, one term for each card held
HeldUnseen(hand, pool) ==
  SumCounts([v \in Values |-> Copies(hand, v) * pool.count[v]], 12)

C7_BustProbabilityInUnitInterval ==
  (called = "calculateBustProbability" /\ WellFormed(myCards, revealedCounts))
    => RatLe(Zero, ret) /\ RatLe(ret, One)

\* pool with one more unseen copy of v
RaisePool(pool, v) ==
  [count |-> [pool.count EXCEPT ![v] = @ + 1], total |-> pool.total + 1]

\* C8: calculateBustProbability is non-decreasing in pool[v] for every v in
\* the hand: for a fixed hand, raising one pool[v] by one, pool.total with
\* it and every other entry equal, never lowers the result.  Stated of the
\* hands and revealed counts the data model allows.
C8_MonotoneInPool ==
  (called = "calculateBustProbability" /\ WellFormed(myCards, revealedCounts))
    =>
    \A v \in CardSet(myCards) :
      RatLe(ret,
            calculateBustProbability(
              myCards, RaisePool(getUnknownPool(revealedCounts), v)))

\* What holds of calculateBustProbability when no value is held twice: the
\* result is in [0,1] and raising pool[v] for a held v never lowers it.
BustProbabilityOfDuplicateFreeHand ==
  (called = "calculateBustProbability" /\ DuplicateFree(myCards)) =>
    /\ RatLe(Zero, ret) /\ RatLe(ret, One)
    /\ \A v \in CardSet(myCards) :
         RatLe(ret,
               calculateBustProbability(
                 myCards, RaisePool(getUnknownPool(revealedCounts), v)))

C10_X2Doubles ==
  LET pool   == getUnknownPool(revealedCounts)
      two    == RatOf(2)
      \* ret was computed with hasX2; other is the same call with ~hasX2
      Doubled(other) == IF hasX2 THEN RatEq(ret, RatMul(two, other))
                        ELSE RatEq(other, RatMul(two, ret))
      safe   == {v \in Values : Copies(myCards, v) = 0 /\ pool.count[v] > 0}
      weight == SumCounts([v \in Values |->
                             IF v \in safe THEN v * pool.count[v] ELSE 0], 12)
      count  == SumCounts([v \in Values |->
                             IF v \in safe THEN pool.count[v] ELSE 0], 12)
      mean   == IF count = 0 THEN Zero ELSE Frac(weight, count)
  IN  /\ called = "calculateCurrentPoints" =>
           Doubled(calculateCurrentPoints(myCards, ~hasX2))
      /\ called = "calculateExpectedDrawValue" =>
           /\ Doubled(calculateExpectedDrawValue(myCards, pool, ~hasX2))
           /\ RatEq(ret, RatMul(RatOf(Factor(hasX2)), mean))
      /\ MiddleRegime =>
           LET other == calculateStrategy(myCards, revealedCounts,
                                          hasSecondChance, ~hasX2)
           IN  IF hasX2 THEN RatEq(ret.evStay, RatMul(two, other.evStay))
               ELSE RatEq(other.evStay, RatMul(two, ret.evStay))

\* a doubled, non-zero expected draw value
C10_Witness ==
  /\ called = "calculateExpectedDrawValue"
  /\ hasX2
  /\ myCards # <<>>
  /\ RatGt(ret, Zero)
  /\ RatEq(ret, RatMul(RatOf(2),
                       calculateExpectedDrawValue(
                         myCards, getUnknownPool(revealedCounts), FALSE)))

\* the unknown pool of the snapshot, written out from the deck
SnapshotPool ==
  LET seen(v)  == IF v \in DOMAIN revealedCounts THEN revealedCounts[v] ELSE 0
      count    == [v \in Values |->
                     IF DECK_COMPOSITION[v + 1] > seen(v)
                     THEN DECK_COMPOSITION[v + 1] - seen(v) ELSE 0]
  IN  [count |-> count, total |-> SumCounts(count, 12)]

HeldWithUnseen ==
  LET Outstanding(card) == SnapshotPool.count[card] > 0
  IN  SelectSeq(myCards, Outstanding)

\* C12 as stated: in every result of calculateStrategy, whatever the size of
\* the hand, dangerCards is exactly the list of the held face values whose
\* remaining count in the unknown pool is > 0.
C12_DangerCardsAnyHandSize ==
  called = "calculateStrategy" => ret.dangerCards = HeldWithUnseen

\* C12 amended: for a hand of at most 6 cards dangerCards is exactly the list
\* of the held face values whose remaining count in the unknown pool is > 0
\* (none for the empty hand); for a hand of 7 cards or more dangerCards is
\* empty, whatever is left unseen.
C12_DangerCards ==
  called = "calculateStrategy" =>
    IF Len(myCards) >= 7 THEN ret.dangerCards = <<>>
    ELSE ret.dangerCards = HeldWithUnseen

\* seven cards or more held, copies of them unseen, and no danger card
C12_Witness ==
  /\ called = "calculateStrategy"
  /\ Len(myCards) >= 7
  /\ HeldWithUnseen # <<>>
  /\ ret.dangerCards = <<>>

\* C13 as stated: every result of calculateStrategy, for the empty hand and
\* for 7 cards or more too, contains the UnknownPool derived from
\* revealedCounts.
C13_EveryResultHoldsPool ==
  called = "calculateStrategy" =>
    /\ "unknownPool" \in DOMAIN ret
    /\ ret.unknownPool = SnapshotPool

\* C13 amended: the result for a hand of 1 to 6 cards contains the
\* UnknownPool derived from revealedCounts; the results for the empty hand and
\* for a hand of 7 cards or more have no unknownPool field.
C13_PoolInMiddleRegime ==
  called = "calculateStrategy" =>
    IF Len(myCards) \in 1..6
    THEN "unknownPool" \in DOMAIN ret /\ ret.unknownPool = SnapshotPool
    ELSE "unknownPool" \notin DOMAIN ret

\* a result holding a pool that the revealed cards have reduced
C13_Witness ==
  /\ MiddleRegime
  /\ "unknownPool" \in DOMAIN ret
  /\ ret.unknownPool.total \in 1..(TOTAL_NUMBER_CARDS - 1)
  /\ ret.unknownPool = SnapshotPool

\* no card of the hand has a copy left in the unknown pool
NoHeldUnseen ==
  \A k \in DOMAIN myCards : SnapshotPool.count[myCards[k]] = 0

\* C16: for a hand of 1 to 6 cards of which no held value has an unseen copy
\* left, bustProbability is 0, dangerCards is empty, evHit >= evStay, and the
\* recommendation is not STAY.
C16_NoRiskNeverStay ==
  (MiddleRegime /\ NoHeldUnseen) =>
    /\ RatEq(ret.bustProbability, Zero)
    /\ ret.dangerCards = <<>>
    /\ RatLe(ret.evStay, ret.evHit)
    /\ ret.recommendation # "STAY"

\* a hand without risk, worth points, that is told to hit
C16_Witness ==
  /\ MiddleRegime
  /\ NoHeldUnseen
  /\ RatGt(ret.evStay, Zero)
  /\ RatLt(ret.evStay, ret.evHit)
  /\ ret.recommendation = "HIT"

\* C17: for a hand of 1 to 6 distinct values and revealedCounts within the
\* invariants of the data model, turning hasSecondChance on (hasX2 as it is)
\* never raises effectiveBustProbability and never lowers evHit, so a HIT
\* without the second chance is a HIT with it.
C17_SecondChanceNeverHurts ==
  (/\ MiddleRegime
   /\ ~hasSecondChance
   /\ DuplicateFree(myCards)
   /\ WellFormed(myCards, revealedCounts)) =>
    LET with == calculateStrategy(myCards, revealedCounts, TRUE, hasX2)
    IN  /\ RatLe(with.effectiveBustProbability, ret.effectiveBustProbability)
        /\ RatLe(ret.evHit, with.evHit)
        /\ ret.recommendation = "HIT" => with.recommendation = "HIT"

\* a hand told to stay without the second chance and to hit with it
C17_Witness ==
  /\ MiddleRegime
  /\ ~hasSecondChance
  /\ DuplicateFree(myCards)
  /\ WellFormed(myCards, revealedCounts)
  /\ ret.recommendation = "STAY"
  /\ LET with == calculateStrategy(myCards, revealedCounts, TRUE, hasX2)
     IN  /\ with.recommendation = "HIT"
         /\ RatLt(with.effectiveBustProbability, ret.effectiveBustProbability)
         /\ RatLt(ret.evHit, with.evHit)

(***************************************************************************)
(* Properties of the page.                                                 *)
(***************************************************************************)
\* C14: from the initial state of the page and after any sequence of
\* toggleMyCard, incrementRevealed, decrementRevealed, modifier toggles and
\* resetState, every face value v has 0 <= revealedCounts[v] <= deck[v], and
\* the copies of v in myCards are at most revealedCounts[v].
C14_RevealedCountsWithinDeck ==
  /\ DOMAIN revealedCounts \subseteq Values
  /\ \A v \in Values :
       LET count == IF v \in DOMAIN revealedCounts THEN revealedCounts[v]
                    ELSE 0
       IN  /\ 0 <= count
           /\ count <= DECK_COMPOSITION[v + 1]
           /\ Cardinality({k \in DOMAIN myCards : myCards[k] = v}) <= count

\* a held card whose every copy is revealed, next to a held card of which
\* just the own copy is revealed and a second card revealed on the table
C14_Witness ==
  /\ \E v \in Values :
       /\ Copies(myCards, v) = 1
       /\ Revealed(revealedCounts, v) = Deck(v)
       /\ v \in rendered.maxed
  /\ \E v \in Values :
       /\ Copies(myCards, v) = 1
       /\ Revealed(revealedCounts, v) = 1
       /\ Deck(v) > 1
  /\ \E v \in Values :
       /\ Copies(myCards, v) = 0
       /\ Revealed(revealedCounts, v) >= 2

C18_RenderedIsCurrent ==
  LET result == calculateStrategy(myCards, revealedCounts,
                                  hasSecondChance, hasX2)
  IN  /\ ret = result
      /\ rendered = Page(result, myCards, revealedCounts)
      /\ IF myCards = <<>>
         THEN /\ rendered.recommendation = "SELECT CARDS"
              /\ rendered.bustProb = <<>>
              /\ rendered.evHit = <<>>
              /\ rendered.evStay = <<>>
         ELSE /\ rendered.recommendation = result.recommendation
              /\ rendered.bustProb =
                   <<toFixed1(RatMul(result.bustProbability, RatOf(100)))>>
              /\ rendered.evHit = <<toFixed1(result.evHit)>>
              /\ rendered.evStay = <<toFixed1(result.evStay)>>
              /\ rendered.evStay = <<10 * SumSeq(myCards) * Factor(hasX2)>>

\* the page tells a doubled hand with a second chance to hit, in remove mode,
\* where without the second chance it would say stay
C18_Witness ==
  /\ removeMode
  /\ hasX2
  /\ hasSecondChance
  /\ Len(myCards) = 2
  /\ rendered.recommendation = "HIT"
  /\ rendered.evStay = <<460>>
  /\ calculateStrategy(myCards, revealedCounts, FALSE, hasX2).recommendation
       = "STAY"

====
